---------------------------- MODULE Spec2Model ----------------------------
(***************************************************************************)
(* A model of the anonymization / deanonymization engine of                *)
(* rvtools_processor.py: the AnonymizationManager (forward and reverse     *)
(* mappings, counters, seen-entity sets), the cell loop of                 *)
(* anonymize_rvtools with its header/sheet rule chain, and the blind       *)
(* substitution pass of deanonymize_rvtools.                               *)
(*                                                                         *)
(* Cell values, pseudonyms and mapping keys are strings, handled           *)
(* character by character (Len, SubSeq, \o), so that formatting, parsing   *)
(* and splitting are computed rather than assumed.  An empty cell (None)   *)
(* and the empty string are both falsy in every test the code makes and    *)
(* are both written "".                                                    *)
(***************************************************************************)
EXTENDS Integers, Sequences, FiniteSets, TLC

(***************************************************************************)
(* Strings and numbers                                                     *)
(***************************************************************************)
CharAt(s, i) == SubSeq(s, i, i)

Chars(s) == { CharAt(s, i) : i \in 1..Len(s) }

DigitChars == Chars("0123456789")

HexChars == Chars("0123456789abcdefABCDEF")

\* c in s, for a one-character c
HasChar(s, c) == c \in Chars(s)

\* Position of the first occurrence of the character c in s (0 if none)
IndexOf(s, c) ==
    IF HasChar(s, c)
    THEN CHOOSE i \in 1..Len(s) :
            CharAt(s, i) = c /\ \A j \in 1..(i - 1) : CharAt(s, j) # c
    ELSE 0

\* str.isdigit()
isdigit(s) == Len(s) > 0 /\ Chars(s) \subseteq DigitChars

DigitVal(c) == IndexOf("0123456789", c) - 1

HexVal(c) == IF c \in DigitChars THEN DigitVal(c)
             ELSE IF HasChar("abcdef", c) THEN IndexOf("abcdef", c) + 9
             ELSE IndexOf("ABCDEF", c) + 9

RECURSIVE StrToInt(_)
\* int(s) of a decimal digit string
StrToInt(s) ==
    IF Len(s) = 0 THEN 0
    ELSE 10 * StrToInt(SubSeq(s, 1, Len(s) - 1)) + DigitVal(CharAt(s, Len(s)))

RECURSIVE HexToInt(_)
\* int(s, 16)
HexToInt(s) ==
    IF Len(s) = 0 THEN 0
    ELSE 16 * HexToInt(SubSeq(s, 1, Len(s) - 1)) + HexVal(CharAt(s, Len(s)))

RECURSIVE IntToStr(_)
\* str(n) of a non-negative integer
IntToStr(n) ==
    IF n < 10 THEN CharAt("0123456789", n + 1)
    ELSE IntToStr(n \div 10) \o CharAt("0123456789", (n % 10) + 1)

RECURSIVE ZeroFill(_, _)
ZeroFill(s, width) == IF Len(s) >= width THEN s ELSE ZeroFill("0" \o s, width)

\* f"{n:04d}"
Format04d(n) == ZeroFill(IntToStr(n), 4)

RECURSIVE split(_, _)
\* s.split(sep) for a one-character separator
split(s, sep) ==
    IF ~HasChar(s, sep) THEN <<s>>
    ELSE <<SubSeq(s, 1, IndexOf(s, sep) - 1)>>
            \o split(SubSeq(s, IndexOf(s, sep) + 1, Len(s)), sep)

RECURSIVE join(_, _)
\* sep.join(parts)
join(parts, sep) ==
    IF Len(parts) = 0 THEN ""
    ELSE IF Len(parts) = 1 THEN parts[1]
    ELSE parts[1] \o sep \o join(Tail(parts), sep)

Whitespace == {" "}

RECURSIVE lstrip(_)
lstrip(s) == IF Len(s) > 0 /\ CharAt(s, 1) \in Whitespace
             THEN lstrip(SubSeq(s, 2, Len(s))) ELSE s

RECURSIVE rstrip(_)
rstrip(s) == IF Len(s) > 0 /\ CharAt(s, Len(s)) \in Whitespace
             THEN rstrip(SubSeq(s, 1, Len(s) - 1)) ELSE s

\* str.strip()
strip(s) == rstrip(lstrip(s))

LowerChar(c) ==
    IF HasChar("ABCDEFGHIJKLMNOPQRSTUVWXYZ", c)
    THEN CharAt("abcdefghijklmnopqrstuvwxyz", IndexOf("ABCDEFGHIJKLMNOPQRSTUVWXYZ", c))
    ELSE c

RECURSIVE lower(_)
\* str.lower()
lower(s) == IF Len(s) = 0 THEN "" ELSE LowerChar(CharAt(s, 1)) \o lower(SubSeq(s, 2, Len(s)))

\* sub in s
HasSubstring(s, sub) ==
    \E i \in 1..(Len(s) - Len(sub) + 1) : SubSeq(s, i, i + Len(sub) - 1) = sub

(***************************************************************************)
(* hashlib.md5(s.encode()).hexdigest(): the digests of the strings the     *)
(* inputs of this model lead to, tabulated from MD5 itself.  A string      *)
(* outside the table has no value here, so TLC stops if one is hashed.     *)
(***************************************************************************)
md5_hexdigest(s) ==
    CASE s = "167838720" -> "8032f807c1ed67a4f0a50e67b62df53d"
      [] s = "167850496" -> "150a032bd00b870b0de42046df5a816f"
      [] s = "168363008" -> "e5597d0557a414629dc50c133d3bf77b"
      [] s = "167838976" -> "d2657e16e6696b6423fda57203c77263"
      [] s = "fe80::1" -> "1b29d948bb37422fb64d7ca5ef0b16ad"
      [] s = "00:50:56:aa:bb:01" -> "3776fee8ea55ac166d9cf2cc48526cf5"
      [] s = "00:50:56:aa:bb:02" -> "2bf0bc7f26ed70d2471de55ee6bb531d"
      [] s = "4203f1a2-3b4c-5d6e-7f80-91a2b3c4d5e6" -> "60bdd5040b868c60ce4d53dd7f24cc2f"
      [] s = "4203f1a23b4c5d6e7f8091a2b3c4d5e6" -> "648642ac99a95d9883c625b33f435b9e"

(***************************************************************************)
(* Dictionaries: functions from keys to values                             *)
(***************************************************************************)
EmptyDict == [k \in {} |-> ""]

\* d[k] = v
Put(d, k, v) == [x \in (DOMAIN d) \cup {k} |-> IF x = k THEN v ELSE d[x]]

\* d.get(k, default)
Get(d, k, default) == IF k \in DOMAIN d THEN d[k] ELSE default

\* len(d)
len(d) == Cardinality(DOMAIN d)


(***************************************************************************)
(* ipaddress.IPv4Address / IPv6Address (the parts anonymize_single_ip      *)
(* uses: whether the string parses, and the 32-bit value of an IPv4        *)
(* address).  TLC's integers are 32-bit signed, so the model's IPv4        *)
(* inputs have a first octet below 128; TLC stops on overflow otherwise.   *)
(***************************************************************************)
\* ipaddress.IPv4Address._parse_octet accepts the octet
ValidOctet(o) ==
    /\ Len(o) > 0
    /\ Chars(o) \subseteq DigitChars
    /\ Len(o) <= 3
    /\ (o # "0" => CharAt(o, 1) # "0")
    /\ StrToInt(o) <= 255

ValidOctets(octets) == Len(octets) = 4 /\ \A i \in 1..4 : ValidOctet(octets[i])

\* ipaddress.IPv4Address(s) does not raise
IsIPv4Address(s) == ~HasChar(s, "/") /\ ValidOctets(split(s, "."))

OctetsToInt(o) ==
    ((StrToInt(o[1]) * 256 + StrToInt(o[2])) * 256 + StrToInt(o[3])) * 256
        + StrToInt(o[4])

\* int(ipaddress.IPv4Address(s))
IPv4ToInt(s) == OctetsToInt(split(s, "."))

\* str(ipaddress.IPv4Address(n))
IntToIPv4(n) ==
    IntToStr(n \div 16777216) \o "." \o IntToStr((n \div 65536) % 256) \o "."
        \o IntToStr((n \div 256) % 256) \o "." \o IntToStr(n % 256)

ValidHextet(h) == Len(h) > 0 /\ Len(h) <= 4 /\ Chars(h) \subseteq HexChars

\* IPv6Address._ip_int_from_string on the ':'-separated parts, of which
\* part skip (1-based) is the empty one a "::" leaves
ValidPartsAround(parts, skip) ==
    /\ (parts[1] = "" => skip = 2)
    /\ (parts[Len(parts)] = "" => skip = Len(parts) - 1)
    /\ 8 - (  (IF parts[1] = "" THEN skip - 2 ELSE skip - 1)
            + (IF parts[Len(parts)] = "" THEN Len(parts) - skip - 1
               ELSE Len(parts) - skip) ) >= 1
    /\ \A i \in 1..(skip - 1) : (i > 1 \/ parts[1] # "") => ValidHextet(parts[i])
    /\ \A i \in (skip + 1)..Len(parts) :
            (i < Len(parts) \/ parts[Len(parts)] # "") => ValidHextet(parts[i])

ValidParts(parts) ==
    /\ Len(parts) >= 3
    /\ Len(parts) <= 9
    /\ Cardinality({ i \in 2..(Len(parts) - 1) : parts[i] = "" }) <= 1
    /\ IF \E i \in 2..(Len(parts) - 1) : parts[i] = ""
       THEN \A skip \in { i \in 2..(Len(parts) - 1) : parts[i] = "" } :
                ValidPartsAround(parts, skip)
       ELSE Len(parts) = 8 /\ \A i \in 1..8 : ValidHextet(parts[i])

\* ipaddress.IPv6Address(s) does not raise.  Addresses with an embedded
\* IPv4 tail or a zone id ('.' or '%') are outside the model's inputs and
\* are not recognised here.
IsIPv6Address(s) ==
    /\ ~HasChar(s, "/") /\ ~HasChar(s, ".") /\ ~HasChar(s, "%")
    /\ ValidParts(split(s, ":"))

DigitGroups(groups) == Len(groups) = 4 /\ \A i \in 1..4 : isdigit(groups[i])

\* re.match(r'^\d+\.\d+\.\d+\.\d+$', s)
LooksLikeIPv4(s) == DigitGroups(split(s, "."))

\* x & 0xFFFFFF00, for 0 <= x < 2^31
AndFFFFFF00(x) == (x \div 256) * 256

\* x & 0xFF
AndFF(x) == x % 256

\* x & 0xFF00
AndFF00(x) == ((x \div 256) % 256) * 256

(***************************************************************************)
(* class AnonymizationManager.  A manager is a record of the object's      *)
(* fields; each method is an operator from the manager and the arguments   *)
(* to the manager afterwards (m) and the value returned (ret).             *)
(***************************************************************************)
\* AnonymizationManager.__init__
NewManager(filename_suffix) ==
    [ vm_counter |-> 1, host_counter |-> 1, cluster_counter |-> 1,
      datacenter_counter |-> 1,
      ip_mappings |-> EmptyDict, name_mappings |-> EmptyDict,
      reverse_mappings |-> EmptyDict, vm_id_mappings |-> EmptyDict,
      filename_suffix |-> filename_suffix,
      unique_vms |-> {}, unique_hosts |-> {}, unique_clusters |-> {},
      unique_datacenters |-> {} ]

Returns(m, ret) == [m |-> m, ret |-> ret]

\* anonymize_vm_name_with_id with the vm_id_mappings test left out of the
\* suffix condition: the faulty variant that C6 excludes
anonymize_vm_name_always_suffixed(m, vm_name, vm_id, count_vm) ==
    IF vm_name = "" THEN Returns(m, vm_name)
    ELSE IF vm_name \in DOMAIN m.name_mappings
    THEN Returns(m, m.name_mappings[vm_name])
    ELSE IF vm_id # ""
    THEN Returns([m EXCEPT
                     !.name_mappings =
                         Put(@, vm_name, vm_id \o "_" \o m.filename_suffix),
                     !.reverse_mappings =
                         Put(@, vm_id \o "_" \o m.filename_suffix, vm_name),
                     !.vm_id_mappings =
                         Put(@, vm_id, vm_id \o "_" \o m.filename_suffix)],
                 vm_id \o "_" \o m.filename_suffix)
    ELSE Returns([m EXCEPT
                     !.name_mappings = Put(@, vm_name, "VM-" \o Format04d(m.vm_counter)),
                     !.reverse_mappings = Put(@, "VM-" \o Format04d(m.vm_counter), vm_name),
                     !.vm_counter = @ + 1],
                 "VM-" \o Format04d(m.vm_counter))

anonymize_vm_name_with_id(m, vm_name, vm_id, count_vm) ==
    IF vm_name = "" THEN Returns(m, vm_name)
    ELSE IF vm_name \in DOMAIN m.name_mappings
    THEN Returns(m, m.name_mappings[vm_name])
    ELSE
      LET m1 == IF count_vm THEN [m EXCEPT !.unique_vms = @ \cup {vm_name}] ELSE m
      IN  IF vm_id # ""
          THEN LET anon_name ==
                     IF m.filename_suffix # "" /\ vm_id \in DOMAIN m.vm_id_mappings
                     THEN vm_id \o "_" \o m.filename_suffix
                     ELSE vm_id
               IN  Returns([m1 EXCEPT
                               !.name_mappings = Put(@, vm_name, anon_name),
                               !.reverse_mappings = Put(@, anon_name, vm_name),
                               !.vm_id_mappings = Put(@, vm_id, anon_name)],
                           anon_name)
          ELSE LET base == "VM-" \o Format04d(m.vm_counter)
                   anon_name == IF m.filename_suffix # ""
                                THEN base \o "_" \o m.filename_suffix
                                ELSE base
               IN  Returns([m1 EXCEPT
                               !.name_mappings = Put(@, vm_name, anon_name),
                               !.reverse_mappings = Put(@, anon_name, vm_name),
                               !.vm_counter = @ + 1],
                           anon_name)

\* anonymize_host_name with the name_mappings lookup left out: the faulty
\* variant that C4 excludes
anonymize_host_name_without_lookup(m, host_name, count_host) ==
    IF host_name = "" THEN Returns(m, host_name)
    ELSE Returns([m EXCEPT
                     !.name_mappings = Put(@, host_name, "HOST-" \o Format04d(m.host_counter)),
                     !.reverse_mappings = Put(@, "HOST-" \o Format04d(m.host_counter), host_name),
                     !.host_counter = @ + 1],
                 "HOST-" \o Format04d(m.host_counter))

anonymize_host_name(m, host_name, count_host) ==
    IF host_name = "" THEN Returns(m, host_name)
    ELSE IF host_name \notin DOMAIN m.name_mappings
    THEN LET anon_name == "HOST-" \o Format04d(m.host_counter)
         IN  Returns([m EXCEPT
                         !.unique_hosts = IF count_host THEN @ \cup {host_name} ELSE @,
                         !.name_mappings = Put(@, host_name, anon_name),
                         !.reverse_mappings = Put(@, anon_name, host_name),
                         !.host_counter = @ + 1],
                     anon_name)
    ELSE Returns(m, m.name_mappings[host_name])

anonymize_cluster_name(m, cluster_name) ==
    IF cluster_name = "" THEN Returns(m, cluster_name)
    ELSE IF cluster_name \notin DOMAIN m.name_mappings
    THEN LET anon_name == "CLUSTER-" \o Format04d(m.cluster_counter)
         IN  Returns([m EXCEPT
                         !.unique_clusters = @ \cup {cluster_name},
                         !.name_mappings = Put(@, cluster_name, anon_name),
                         !.reverse_mappings = Put(@, anon_name, cluster_name),
                         !.cluster_counter = @ + 1],
                     anon_name)
    ELSE Returns(m, m.name_mappings[cluster_name])

anonymize_datacenter_name(m, dc_name) ==
    IF dc_name = "" THEN Returns(m, dc_name)
    ELSE IF dc_name \notin DOMAIN m.name_mappings
    THEN LET anon_name == "DC-" \o Format04d(m.datacenter_counter)
         IN  Returns([m EXCEPT
                         !.unique_datacenters = @ \cup {dc_name},
                         !.name_mappings = Put(@, dc_name, anon_name),
                         !.reverse_mappings = Put(@, anon_name, dc_name),
                         !.datacenter_counter = @ + 1],
                     anon_name)
    ELSE Returns(m, m.name_mappings[dc_name])

\* hashlib.md5(str(network_part).encode()).hexdigest()[:4], then
\* int(network_hash, 16) % 254 + 1
network_id(network_part) ==
    (HexToInt(SubSeq(md5_hexdigest(IntToStr(network_part)), 1, 4)) % 254) + 1

\* anon_ip_int with the third octet taken from host_part: the faulty variant
\* that C5 excludes
anon_ip_int_host_in_network(network_part, host_part) ==
    167772160 + network_id(network_part) * 65536 + host_part * 256 + host_part

\* 0x0A000000 | (network_id << 16) | ((network_part >> 8) & 0xFF00), then
\* anon_network | host_part: the terms occupy disjoint bits, so | is +
anon_ip_int(network_part, host_part) ==
    167772160 + network_id(network_part) * 65536 + AndFF00(network_part \div 256)
        + host_part

\* network_part and host_part of ip_int, to the synthetic address
anon_of_int(ip_int) == anon_ip_int(AndFFFFFF00(ip_int), AndFF(ip_int))

\* The IPv4 branch of anonymize_single_ip: the synthetic address string
anon_ipv4(ip_str) == IntToIPv4(anon_of_int(IPv4ToInt(ip_str)))

ipv6_groups(ip_hash) ==
    "2001:db8:" \o SubSeq(ip_hash, 1, 4) \o ":" \o SubSeq(ip_hash, 5, 8) \o ":"
        \o SubSeq(ip_hash, 9, 12) \o ":" \o SubSeq(ip_hash, 13, 16) \o ":"
        \o SubSeq(ip_hash, 17, 20) \o ":" \o SubSeq(ip_hash, 21, 24)

\* The IPv6 branch of anonymize_single_ip
anon_ipv6(ip_str) == ipv6_groups(md5_hexdigest(ip_str))

\* self.ip_mappings[ip_str] = anon_ip; self.reverse_mappings[anon_ip] = ip_str;
\* return anon_ip
RecordIp(m, ip_str, anon_ip) ==
    Returns([m EXCEPT !.ip_mappings = Put(@, ip_str, anon_ip),
                      !.reverse_mappings = Put(@, anon_ip, ip_str)],
            anon_ip)

anonymize_single_ip(m, ip_str) ==
    IF ip_str = "" \/ ip_str \in DOMAIN m.ip_mappings
    THEN Returns(m, Get(m.ip_mappings, ip_str, ip_str))
    ELSE IF IsIPv4Address(ip_str)
    THEN RecordIp(m, ip_str, anon_ipv4(ip_str))
    ELSE IF IsIPv6Address(ip_str)
    THEN RecordIp(m, ip_str, anon_ipv6(ip_str))
    ELSE IF LooksLikeIPv4(ip_str)
    THEN RecordIp(m, ip_str, "10.0.0." \o IntToStr((len(m.ip_mappings) % 254) + 1))
    ELSE Returns(m, ip_str)

\* anonymized_ips.append(anon_ip) if anon_ip is truthy
AppendTruthy(anonymized_ips, anon_ip) ==
    IF anon_ip # "" THEN Append(anonymized_ips, anon_ip) ELSE anonymized_ips

RECURSIVE AnonymizeEach(_, _, _)
\* The loop of anonymize_ip_address over the sub-values ips[i..]: state is
\* the manager (m) and anonymized_ips (ret) before sub-value i
AnonymizeEach(state, ips, i) ==
    IF i > Len(ips) THEN state
    ELSE AnonymizeEach(
            CHOOSE next \in { Returns(r.m, AppendTruthy(state.ret, r.ret)) :
                                r \in {anonymize_single_ip(state.m, strip(ips[i]))} } :
                TRUE,
            ips, i + 1)

\* separator.join(anonymized_ips) if anonymized_ips else ip_str
Rejoined(r, separator, ip_str) ==
    Returns(r.m, IF Len(r.ret) > 0 THEN join(r.ret, separator) ELSE ip_str)

\* anonymize_single_ip(ip_str) or ip_str
SingleOr(r, ip_str) == Returns(r.m, IF r.ret # "" THEN r.ret ELSE ip_str)

\* anonymize_ip_address once ip_str = str(ip_str).strip()
anonymize_stripped(m, ip_str) ==
    IF HasChar(ip_str, ",")
    THEN Rejoined(AnonymizeEach(Returns(m, <<>>), split(ip_str, ","), 1), ",", ip_str)
    ELSE IF HasChar(ip_str, ";")
    THEN Rejoined(AnonymizeEach(Returns(m, <<>>), split(ip_str, ";"), 1), ";", ip_str)
    ELSE SingleOr(anonymize_single_ip(m, ip_str), ip_str)

anonymize_ip_address(m, ip_value) ==
    IF ip_value = "" \/ strip(ip_value) = "" THEN Returns(m, ip_value)
    ELSE anonymize_stripped(m, strip(ip_value))

anonymize_generic_field(m, value, field_type) ==
    IF value = "" THEN Returns(m, value)
    ELSE IF value \notin DOMAIN m.name_mappings
    THEN LET anon_value == field_type \o "-" \o Format04d(len(m.name_mappings))
         IN  Returns([m EXCEPT
                         !.name_mappings = Put(@, value, anon_value),
                         !.reverse_mappings = Put(@, anon_value, value)],
                     anon_value)
    ELSE Returns(m, m.name_mappings[value])

\* get_mappings(), as json.dump writes it and json.load reads it back
get_mappings(m) ==
    [ reverse_mappings |-> m.reverse_mappings,
      ip_mappings |-> m.ip_mappings,
      name_mappings |-> m.name_mappings ]

(***************************************************************************)
(* anonymize_rvtools: the body of the cell loop                            *)
(***************************************************************************)
NumericHeaders ==
    {"Port", "VLAN", "VLAN ID", "CPU", "Memory", "Disk Size", "Used Space", "Free Space"}

VmSheets ==
    {"vInfo", "vSnapshot", "vCPU", "vMemory", "vDisk", "vPartition", "vNetwork",
     "vFloppy", "vCD"}

\* The numeric test left out, the cell going on to a generic branch: the
\* faulty variant that C8 excludes
numeric_anonymized(m, original_value) ==
    anonymize_generic_field(m, original_value, "ANON")

\* `continue` for a purely numeric cell under a capacity/port/VLAN header
numeric_skip(m, original_value) == Returns(m, original_value)

\* A closing else branch that anonymizes what no rule matched: the faulty
\* variant that C9 excludes
no_rule_anonymized(m, original_value) ==
    anonymize_generic_field(m, original_value, "UNKNOWN")

\* No branch of the if/elif chain matches: the cell is not assigned
no_rule(m, original_value) == Returns(m, original_value)

\* The DNS branch: the first label is anonymized, ".anon.local" appended
WithSuffix(r, suffix) == Returns(r.m, r.ret \o suffix)

anonymize_dns(m, original_value) ==
    IF HasChar(original_value, ".")
    THEN WithSuffix(anonymize_generic_field(m, split(original_value, ".")[1], "HOST"),
                    ".anon.local")
    ELSE anonymize_generic_field(m, original_value, "DNS")

\* The MAC branch
\* ':'.join([mac_hash[i:i+2] for i in range(0, 12, 2)])
format_mac(mac_hash) == join([i \in 1..6 |-> SubSeq(mac_hash, 2 * i - 1, 2 * i)], ":")

\* cell.value = value; anon_manager.reverse_mappings[value] = str(original_value)
RecordHash(m, value, original_value) ==
    Returns([m EXCEPT !.reverse_mappings = Put(@, value, original_value)], value)

anonymize_mac(m, original_value) ==
    RecordHash(m, format_mac(SubSeq(md5_hexdigest(original_value), 1, 12)),
               original_value)

\* The UUID branch
\* The 8-4-4-4-12 grouping of a digest
format_uuid(uuid_hash) ==
    SubSeq(uuid_hash, 1, 8) \o "-" \o SubSeq(uuid_hash, 9, 12) \o "-"
        \o SubSeq(uuid_hash, 13, 16) \o "-" \o SubSeq(uuid_hash, 17, 20) \o "-"
        \o SubSeq(uuid_hash, 21, 32)

anonymize_uuid(m, original_value) ==
    RecordHash(m,
               IF HasChar(original_value, "-")
               THEN format_uuid(md5_hexdigest(original_value))
               ELSE md5_hexdigest(original_value),
               original_value)

\* The condition of the if/elif chain that the cell meets first, by the name
\* of its branch: "Empty" and "Numeric" are the two `continue` tests, a
\* generic branch is named by the field_type it passes, "NoChange" is the
\* end of the chain
field_rule(sheet_name, header, original_value) ==
    IF original_value = "" \/ strip(original_value) = ""
    THEN "Empty"
    ELSE IF header \in NumericHeaders /\ isdigit(original_value)
    THEN "Numeric"
    ELSE IF header \in {"VM", "VM Name", "Name"} /\ sheet_name \in VmSheets
    THEN "VM"
    ELSE IF header \in {"Host", "ESX Host", "Host Name", "Hosts"}
    THEN "Host"
    ELSE IF header \in {"Cluster", "Cluster Name"}
    THEN "Cluster"
    ELSE IF header \in {"Datacenter", "Datacenter Name"}
    THEN "Datacenter"
    ELSE IF header \in {"IP Address", "Primary IP Address", "IPv4 Address",
                        "IPv6 Address", "IP Addresses", "Address"}
    THEN "IP"
    ELSE IF header \in {"DNS Name", "FQDN", "DNS Server", "DNS Servers"}
    THEN "DNS"
    ELSE IF header \in {"Mac Address", "MAC Address"}
    THEN "MAC"
    ELSE IF header \in {"Folder", "Path", "Log directory", "Snapshot directory",
                        "Suspend directory", "Resource Pool path"}
    THEN "PATH"
    ELSE IF header \in {"Disk", "Disk Path", "Filename", "File", "Display Name"}
            /\ sheet_name \in {"vDisk", "vPartition", "vMultiPath"}
    THEN "DISK"
    ELSE IF header \in {"Internal Sort Column"}
    THEN "SORT"
    ELSE IF header \in {"Annotation", "Notes", "Description", "Message"}
    THEN "Text"
    ELSE IF header \in {"VI SDK Server", "vCenter"}
    THEN "VCENTER"
    ELSE IF header \in {"Resource Pool", "Resource pool"}
    THEN "POOL"
    ELSE IF header \in {"Datastore", "Datastore Name"}
    THEN "DS"
    ELSE IF header \in {"Network", "Network Name", "Switch", "vSwitch"}
    THEN "NET"
    ELSE IF header \in {"URL"}
    THEN "URL"
    ELSE IF header \in {"Name"} /\ sheet_name = "vHealth"
    THEN "HEALTH"
    ELSE IF header \in {"Guest OS", "Guest OS Full Name"}
            /\ HasSubstring(lower(original_value), "hostname")
    THEN "OS"
    ELSE IF header \in {"Template", "Template Name"}
    THEN "TEMPLATE"
    ELSE IF header \in {"VM UUID", "Instance UUID"} /\ Len(original_value) > 10
    THEN "UUID"
    ELSE IF header \in {"Config File", "VMX File"}
    THEN "CONFIG"
    ELSE IF header \in {"Snapshot Name", "Snapshot Description"}
    THEN "SNAPSHOT"
    ELSE IF header \in {"License Key", "Serial Number"}
    THEN "License"
    ELSE IF header \in {"User", "Owner", "Created By"}
    THEN "USER"
    ELSE "NoChange"

\* The branches that pass the cell to anonymize_generic_field, by field_type
GenericRules ==
    {"PATH", "DISK", "SORT", "VCENTER", "POOL", "DS", "NET", "URL", "HEALTH", "OS",
     "TEMPLATE", "CONFIG", "SNAPSHOT", "USER"}

\* The body of the branch: the manager afterwards (m) and cell.value
\* afterwards (ret)
apply_rule(rule, m, sheet_name, original_value, vm_id) ==
    CASE rule = "Empty" -> Returns(m, original_value)
      [] rule = "Numeric" -> numeric_skip(m, original_value)
      [] rule = "VM" ->
            anonymize_vm_name_with_id(m, original_value, vm_id, sheet_name = "vInfo")
      [] rule = "Host" -> anonymize_host_name(m, original_value, sheet_name = "vHost")
      [] rule = "Cluster" -> anonymize_cluster_name(m, original_value)
      [] rule = "Datacenter" -> anonymize_datacenter_name(m, original_value)
      [] rule = "IP" -> anonymize_ip_address(m, original_value)
      [] rule = "DNS" -> anonymize_dns(m, original_value)
      [] rule = "MAC" -> anonymize_mac(m, original_value)
      [] rule = "Text" -> Returns(m, "ANONYMIZED_TEXT")
      [] rule = "UUID" -> anonymize_uuid(m, original_value)
      [] rule = "License" -> Returns(m, "ANONYMIZED_LICENSE")
      [] rule \in GenericRules -> anonymize_generic_field(m, original_value, rule)
      [] rule = "NoChange" -> no_rule(m, original_value)

\* One pass of the loop body over a cell
anonymize_cell(m, sheet_name, header, original_value, vm_id) ==
    apply_rule(field_rule(sheet_name, header, original_value), m, sheet_name,
               original_value, vm_id)

(***************************************************************************)
(* The workbook and the two passes                                         *)
(***************************************************************************)
VARIABLES
    anon_manager,      \* the run's AnonymizationManager
    sheetnames,        \* wb.sheetnames of the input workbook
    sheet_pos,         \* position of the sheet loop in sheet_order (0: not begun)
    processed_sheets,  \* the sheets the loop went on to process, in order
    cells,             \* the data cells the loop has passed, in order
    pc,                \* "anonymize", "saved" or "deanonymized"
    mapping_file,      \* the mapping document anonymize_rvtools wrote
    deanon             \* what deanonymize_rvtools returned and wrote

vars == <<anon_manager, sheetnames, sheet_pos, processed_sheets, cells, pc,
          mapping_file, deanon>>

\* Most data cells a run of the model processes
MaxCells == 3

priority_sheets == <<"vHost", "vCluster", "vInfo">>

Range(seq) == { seq[i] : i \in 1..Len(seq) }

RECURSIVE Without(_, _)
\* [s for s in seq if s not in excluded]
Without(seq, excluded) ==
    IF Len(seq) = 0 THEN <<>>
    ELSE IF Head(seq) \in excluded THEN Without(Tail(seq), excluded)
    ELSE <<Head(seq)>> \o Without(Tail(seq), excluded)

\* sheet_order without the priority sheets moved to the front: the faulty
\* variant that C12 excludes
sheet_order_as_in_file(names) == names

sheet_order(names) == priority_sheets \o Without(names, Range(priority_sheets))

\* The workbooks of the model: sheet names in the order the file holds them
Workbooks ==
    { <<"vInfo", "vHost">>,
      <<"vNetwork", "vInfo", "vHost">>,
      <<"vHealth", "vCluster", "vInfo">> }

\* The file-name stems left after the two replace() calls
Suffixes == {"", "siteA"}

Cell(header, value, vm_id) == [header |-> header, value |-> value, vm_id |-> vm_id]

\* The data cells a sheet of the model may hold: header, value, and the
\* value of the row's "VM ID" cell ("" when the row has none)
SheetInputs(sheet_name) ==
    CASE sheet_name = "vHost" ->
            { Cell("Host", "esx01", ""), Cell("Host", "esx02", ""),
              Cell("Cluster", "prod", ""), Cell("Datacenter", "dc1", ""),
              Cell("CPU", "16", ""), Cell("Vendor", "Dell", "") }
      [] sheet_name = "vCluster" ->
            { Cell("Name", "prod", ""), Cell("Datacenter", "dc1", "") }
      [] sheet_name = "vInfo" ->
            { Cell("VM", "web01", "vm-1042"), Cell("VM", "db01", "vm-1042"),
              Cell("VM", "app01", ""), Cell("VM", "esx01", "vm-2001"),
              Cell("Host", "esx01", ""),
              Cell("DNS Name", "web.corp.local", ""),
              Cell("Primary IP Address", "10.1.4.50", ""),
              Cell("Annotation", "owned by bob", ""),
              Cell("VM UUID", "4203f1a2-3b4c-5d6e-7f80-91a2b3c4d5e6", ""),
              Cell("Powerstate", "poweredOn", "") }
      [] sheet_name = "vNetwork" ->
            { Cell("VM", "web01", "vm-1042"), Cell("VM", "app02", "vm-1042"),
              Cell("Mac Address", "00:50:56:aa:bb:01", ""),
              Cell("IP Address", "10.1.4.50;10.1.4.51", ""),
              Cell("Network", "prod-net", ""),
              Cell("VLAN", "trunk", ""), Cell("VLAN", "120", "") }
      [] sheet_name = "vHealth" ->
            { Cell("Name", "esx01", ""), Cell("Message", "esx01 is low on memory", "") }
      [] OTHER -> {}

\* sheet_name of the sheet loop ("" before the loop begins)
CurrentSheet ==
    IF sheet_pos \in 1..Len(sheet_order(sheetnames))
    THEN sheet_order(sheetnames)[sheet_pos]
    ELSE ""

InSheet ==
    /\ pc = "anonymize"
    /\ sheet_pos \in 1..Len(sheet_order(sheetnames))
    /\ CurrentSheet \in Range(sheetnames)

\* No deanonymization has run
NoResult == [document |-> "", returned |-> "None", written |-> FALSE, cells |-> <<>>]

Init ==
    /\ \E suffix \in Suffixes : anon_manager = NewManager(suffix)
    /\ sheetnames \in Workbooks
    /\ sheet_pos = 0
    /\ processed_sheets = <<>>
    /\ cells = <<>>
    /\ pc = "anonymize"
    /\ mapping_file = get_mappings(NewManager(""))
    /\ deanon = NoResult

\* The sheet loop moves to the next name of sheet_order; a name the
\* workbook does not hold is skipped
NextSheet ==
    /\ pc = "anonymize"
    /\ sheet_pos < Len(sheet_order(sheetnames))
    /\ sheet_pos' = sheet_pos + 1
    /\ processed_sheets' =
          IF sheet_order(sheetnames)[sheet_pos + 1] \in Range(sheetnames)
          THEN Append(processed_sheets, sheet_order(sheetnames)[sheet_pos + 1])
          ELSE processed_sheets
    /\ UNCHANGED <<anon_manager, sheetnames, cells, pc, mapping_file, deanon>>

\* The cell loop passes the next data cell of the current sheet
ProcessCell(inp) ==
    /\ InSheet
    /\ Len(cells) < MaxCells
    /\ \E r \in {anonymize_cell(anon_manager, CurrentSheet, inp.header, inp.value,
                                  inp.vm_id)} :
           /\ anon_manager' = r.m
           /\ cells' = Append(cells, [sheet |-> CurrentSheet, header |-> inp.header,
                                      vm_id |-> inp.vm_id, original |-> inp.value,
                                      rule |-> field_rule(CurrentSheet, inp.header,
                                                          inp.value),
                                      value |-> r.ret])
    /\ UNCHANGED <<sheetnames, sheet_pos, processed_sheets, pc, mapping_file, deanon>>

\* After the last sheet: wb.save(output_file) and json.dump of get_mappings()
Save ==
    /\ pc = "anonymize"
    /\ sheet_pos = Len(sheet_order(sheetnames))
    /\ pc' = "saved"
    /\ mapping_file' = get_mappings(anon_manager)
    /\ UNCHANGED <<anon_manager, sheetnames, sheet_pos, processed_sheets, cells, deanon>>

\* if cell.value and str(cell.value) in reverse_mappings: cell.value = ...
restore(reverse_mappings, value) ==
    IF value # "" /\ value \in DOMAIN reverse_mappings
    THEN reverse_mappings[value]
    ELSE value

\* The cell loop of deanonymize_rvtools over the data cells of the workbook:
\* the value cell and the row's "VM ID" cell
restore_cells(reverse_mappings, anonymized) ==
    [i \in 1..Len(anonymized) |->
        [ value |-> restore(reverse_mappings, anonymized[i].value),
          vm_id |-> restore(reverse_mappings, anonymized[i].vm_id) ]]

\* deanonymize_rvtools going on with an empty mapping when the document
\* cannot be read: the faulty variant that C10 excludes
deanonymize_without_mapping(document, mapping_data, anonymized) ==
    [ document |-> document, returned |-> "output_file", written |-> TRUE,
      cells |-> restore_cells(IF document = "valid"
                              THEN mapping_data.reverse_mappings
                              ELSE EmptyDict,
                              anonymized) ]

\* deanonymize_rvtools.  document is the state of the mapping file handed
\* in: "valid" (mapping_data is what it holds), "missing" (open raises) or
\* "unparsable" (json.load raises); an exception ends in `return None`
\* before wb.save
deanonymize_rvtools(document, mapping_data, anonymized) ==
    IF document = "valid"
    THEN [ document |-> document, returned |-> "output_file", written |-> TRUE,
           cells |-> restore_cells(mapping_data.reverse_mappings, anonymized) ]
    ELSE [ document |-> document, returned |-> "None", written |-> FALSE,
           cells |-> <<>> ]

\* deanonymize_rvtools on the workbook anonymize_rvtools saved
Deanonymize(document) ==
    /\ pc = "saved"
    /\ pc' = "deanonymized"
    /\ deanon' = deanonymize_rvtools(document, mapping_file, cells)
    /\ UNCHANGED <<anon_manager, sheetnames, sheet_pos, processed_sheets, cells,
                   mapping_file>>

Next ==
    \/ NextSheet
    \/ \E inp \in SheetInputs(CurrentSheet) : ProcessCell(inp)
    \/ Save
    \/ \E document \in {"valid", "missing", "unparsable"} : Deanonymize(document)

Spec == Init /\ [][Next]_vars

(***************************************************************************)
(* The address anonymizer on its own: a run whose workbook holds one       *)
(* sheet of address cells                                                  *)
(***************************************************************************)
\* Address cells: single IPv4 addresses (two on one /24, two networks whose
\* digests agree modulo 254, one on another second octet), an IPv4-shaped
\* invalid value, a non-address, an IPv6 address, a padded value, and
\* multi-value cells (';', ',' with blanks, both separators, an empty item)
IpInputs ==
    { "10.1.4.50", "10.1.4.51", "10.1.50.50", "10.9.4.50", "999.1.1.1", "n/a",
      "fe80::1", " 10.1.4.50", "10.1.4.50;10.1.4.51", "10.1.4.51, 10.9.4.50",
      "10.1.4.50,10.1.4.51;10.9.4.50", "10.9.4.50;;n/a" }

InitIP ==
    /\ \E suffix \in Suffixes : anon_manager = NewManager(suffix)
    /\ sheetnames = <<"vNetwork">>
    /\ sheet_pos = 0
    /\ processed_sheets = <<>>
    /\ cells = <<>>
    /\ pc = "anonymize"
    /\ mapping_file = get_mappings(NewManager(""))
    /\ deanon = NoResult

NextIP ==
    \/ NextSheet
    \/ \E v \in IpInputs : ProcessCell(Cell("IP Address", v, ""))

SpecIP == InitIP /\ [][NextIP]_vars

(***************************************************************************)
(* Properties                                                              *)
(***************************************************************************)
\* The branch of the chain a processed cell met
RuleOf(c) == c.rule

\* The branches that look the value up in name_mappings
NamedRules == {"VM", "Host", "Cluster", "Datacenter", "DNS"} \cup GenericRules

\* The string such a branch looks up: the cell value, or the first label of
\* a dotted DNS value
NameKey(c) ==
    IF RuleOf(c) = "DNS" /\ HasChar(c.original, ".")
    THEN split(c.original, ".")[1]
    ELSE c.original

\* C1: round trip.  After anonymize_rvtools and then deanonymize_rvtools
\* with the mapping file that run wrote, every cell the anonymization
\* changed holds its pre-anonymization value again.
RoundTrip ==
    (pc = "deanonymized" /\ deanon.document = "valid") =>
        \A i \in 1..Len(cells) :
            cells[i].value # cells[i].original =>
                deanon.cells[i].value = cells[i].original

\* C2: reverse-map uniqueness.  No step overwrites an entry of
\* reverse_mappings with a different original or drops it, so no two
\* distinct originals are given the same anonymized value.
ReverseMapUnique ==
    [][ \A k \in DOMAIN anon_manager.reverse_mappings :
            /\ k \in DOMAIN anon_manager'.reverse_mappings
            /\ anon_manager'.reverse_mappings[k] = anon_manager.reverse_mappings[k]
      ]_vars

\* C3: no cross-category collision.  Two distinct originals anonymized
\* under different named or generic categories have different pseudonyms.
NoCrossCategoryCollision ==
    \A i, j \in 1..Len(cells) :
        ( /\ RuleOf(cells[i]) \in NamedRules
          /\ RuleOf(cells[j]) \in NamedRules
          /\ RuleOf(cells[i]) # RuleOf(cells[j])
          /\ NameKey(cells[i]) # NameKey(cells[j]) )
        => anon_manager.name_mappings[NameKey(cells[i])]
              # anon_manager.name_mappings[NameKey(cells[j])]


\* A step of the cell loop, and the cell it passed
CellStep == Len(cells') = Len(cells) + 1

NewCell == cells'[Len(cells')]

\* No entry of name_mappings or ip_mappings is changed or dropped by the step
ForwardKept ==
    /\ \A k \in DOMAIN anon_manager.name_mappings :
          /\ k \in DOMAIN anon_manager'.name_mappings
          /\ anon_manager'.name_mappings[k] = anon_manager.name_mappings[k]
    /\ \A k \in DOMAIN anon_manager.ip_mappings :
          /\ k \in DOMAIN anon_manager'.ip_mappings
          /\ anon_manager'.ip_mappings[k] = anon_manager.ip_mappings[k]

\* Cells of one category holding the same original were given the same value
SameOutput ==
    \A i, j \in 1..Len(cells) :
        (RuleOf(cells[i]) = RuleOf(cells[j]) /\ cells[i].original = cells[j].original)
        => cells[i].value = cells[j].value

\* C4: consistency.  Once an original has an anonymized value, its entry in
\* name_mappings / ip_mappings never changes, and every later anonymization
\* of that original in the same category returns the same value, whatever
\* was anonymized in between.
Consistency == [][ForwardKept /\ SameOutput']_vars

\* An original anonymized, another one after it, then the first one again
ConsistencyWitness ==
    /\ Len(cells) = 3
    /\ RuleOf(cells[1]) = RuleOf(cells[3])
    /\ RuleOf(cells[2]) \in NamedRules
    /\ cells[1].original = cells[3].original
    /\ cells[2].original # cells[1].original
    /\ cells[1].value # cells[1].original
    /\ cells[2].value # cells[2].original
    /\ cells[3].value = cells[1].value

\* The four octets of a dotted address
Octets(ip_str) == split(ip_str, ".")

\* The first three octets of a dotted address
Network(ip_str) == SubSeq(Octets(ip_str), 1, 3)

\* The two addresses have the same first three octets
SameNetwork(a, b) == Network(a) = Network(b)

\* The cells that held one valid IPv4 address
IPv4Cells == { i \in 1..Len(cells) : IsIPv4Address(cells[i].original) }

UsedForOther(m, vm_id, vm_name) ==
    \E other \in DOMAIN m.name_mappings \ {vm_name} : m.name_mappings[other] = vm_id

\* "VM-" and the counter, with the suffix when the run has one
Sequential(m) ==
    IF m.filename_suffix # ""
    THEN "VM-" \o Format04d(m.vm_counter) \o "_" \o m.filename_suffix
    ELSE "VM-" \o Format04d(m.vm_counter)

\* What C6 says of a VM cell c whose name is new to manager m, given the
\* manager afterwards
VmPseudonym(m, after, c) ==
    /\ c.original \in DOMAIN after.name_mappings
    /\ after.name_mappings[c.original] = c.value
    /\ c.value \in DOMAIN after.reverse_mappings
    /\ after.reverse_mappings[c.value] = c.original
    /\ IF c.vm_id # ""
       THEN \/ c.value = c.vm_id
            \/ /\ m.filename_suffix # ""
               /\ c.value = c.vm_id \o "_" \o m.filename_suffix
               /\ UsedForOther(m, c.vm_id, c.original)
       ELSE /\ c.value = Sequential(m)
            /\ after.vm_counter = m.vm_counter + 1

\* C6: VM pseudonym from the row identifier.  A VM name not yet in
\* name_mappings whose row has a VM ID gets that VM ID as pseudonym, with the
\* file suffix appended only if the VM ID was already the pseudonym of
\* another name, and reverse_mappings then maps the pseudonym to the name;
\* without a VM ID a sequential pseudonym is allocated.
VmFromRowId ==
    [][ ( /\ CellStep
          /\ RuleOf(NewCell) = "VM"
          /\ NewCell.original \notin DOMAIN anon_manager.name_mappings )
        => VmPseudonym(anon_manager, anon_manager', NewCell) ]_vars

\* A VM ID used as it is, used again with the suffix, and a row without one
VmFromRowIdWitness ==
    /\ \E i, j \in 1..Len(cells) :
          /\ i < j
          /\ cells[i].vm_id # "" /\ cells[i].value = cells[i].vm_id
          /\ cells[j].vm_id = cells[i].vm_id
          /\ cells[j].original # cells[i].original
          /\ cells[j].value = cells[j].vm_id \o "_" \o anon_manager.filename_suffix
    /\ \E k \in 1..Len(cells) :
          /\ RuleOf(cells[k]) = "VM" /\ cells[k].vm_id = ""
          /\ cells[k].value # cells[k].original

RECURSIVE SplitEach(_, _)
\* The pieces of every string of parts at sep, in order
SplitEach(parts, sep) ==
    IF Len(parts) = 0 THEN <<>>
    ELSE split(Head(parts), sep) \o SplitEach(Tail(parts), sep)

\* The sub-values of an address cell: the pieces between ',' and ';'
SubValues(s) == SplitEach(split(s, ","), ";")

RECURSIVE SingleResults(_, _)
\* What anonymize_single_ip returns for each sub-value, stripped as
\* anonymize_ip_address strips it, the empty results left out
SingleResults(m, subs) ==
    IF Len(subs) = 0 THEN <<>>
    ELSE AppendTruthy(<<>>, anonymize_single_ip(m, strip(Head(subs))).ret)
            \o SingleResults(m, Tail(subs))

\* An address cell holding several sub-values
MultiValue(c) ==
    RuleOf(c) = "IP" /\ (HasChar(c.original, ",") \/ HasChar(c.original, ";"))

\* C7: multi-value address field.  Each sub-value of a cell separated by
\* ',' or ';' is transformed as anonymize_single_ip transforms it, and the
\* non-empty results are rejoined in order with a separator the original
\* used; sub-values of one /24 network so get the same network octets.
MultiValueEach ==
    \A i \in 1..Len(cells) :
        MultiValue(cells[i]) =>
            /\ SubValues(cells[i].value)
                  = SingleResults(anon_manager, SubValues(cells[i].original))
            /\ HasChar(cells[i].value, ",") => HasChar(cells[i].original, ",")
            /\ HasChar(cells[i].value, ";") => HasChar(cells[i].original, ";")

\* C8: numeric passthrough.  A purely numeric cell under a capacity, port or
\* VLAN header keeps its value, and processing it changes no mapping and no
\* other field of the manager, in any sheet and after any cells.
NumericPassthrough ==
    [][ ( /\ CellStep
          /\ NewCell.header \in NumericHeaders
          /\ isdigit(NewCell.original) )
        => (NewCell.value = NewCell.original /\ anon_manager' = anon_manager) ]_vars

\* A numeric cell passed after a cell that was anonymized
NumericPassthroughWitness ==
    \E i \in 2..Len(cells) :
        /\ cells[i].header \in NumericHeaders
        /\ isdigit(cells[i].original)
        /\ cells[i].value = cells[i].original
        /\ cells[i - 1].value # cells[i - 1].original
        /\ DOMAIN anon_manager.reverse_mappings # {}

\* C9: fail-open on unknown columns.  A cell that meets no rule of the chain
\* keeps its value, leaves every mapping and counter of the manager as it
\* was, and the pass goes on to the next cell.
FailOpen ==
    [][ (CellStep /\ RuleOf(NewCell) = "NoChange")
        => /\ NewCell.value = NewCell.original
           /\ anon_manager' = anon_manager
           /\ pc' = "anonymize" ]_vars

\* A cell under an unknown header between two cells that were anonymized
FailOpenWitness ==
    \E i \in 2..(Len(cells) - 1) :
        /\ RuleOf(cells[i]) = "NoChange"
        /\ cells[i].value = cells[i].original
        /\ cells[i - 1].value # cells[i - 1].original
        /\ cells[i + 1].value # cells[i + 1].original

\* C10: deanonymization with a missing or unparsable mapping document
\* returns no output file, and no cell is restored or written.
NoPartialRestore ==
    (pc = "deanonymized" /\ deanon.document \in {"missing", "unparsable"}) =>
        /\ deanon.returned = "None"
        /\ ~deanon.written
        /\ deanon.cells = <<>>

\* Deanonymization failed on a workbook that held anonymized cells
NoPartialRestoreWitness ==
    /\ pc = "deanonymized"
    /\ deanon.document \in {"missing", "unparsable"}
    /\ \E i \in 1..Len(cells) : cells[i].value # cells[i].original
    /\ deanon.returned = "None"

\* The counter category of a branch: the four named ones, and one generic
\* category for the branches that call anonymize_generic_field
CategoryOf(rule) ==
    IF rule \in {"VM", "Host", "Cluster", "Datacenter"} THEN rule ELSE "generic"

\* The prefix the branch of cell c gives a new pseudonym
PrefixOf(c) ==
    CASE RuleOf(c) = "Host" -> "HOST"
      [] RuleOf(c) = "Cluster" -> "CLUSTER"
      [] RuleOf(c) = "Datacenter" -> "DC"
      [] RuleOf(c) = "DNS" -> IF HasChar(c.original, ".") THEN "HOST" ELSE "DNS"
      [] OTHER -> RuleOf(c)

\* Cell i held an original that no earlier cell had put in name_mappings
NewlySeen(i) ==
    /\ RuleOf(cells[i]) \in NamedRules
    /\ \A j \in 1..(i - 1) :
          RuleOf(cells[j]) \in NamedRules => NameKey(cells[j]) # NameKey(cells[i])

\* The cells up to cell i whose original was newly seen in category
Allocated(category, i) ==
    { j \in 1..i : NewlySeen(j) /\ CategoryOf(RuleOf(cells[j])) = category }

\* C11: counters and sequential pseudonyms.  Each per-category counter is 1
\* plus the number of originals newly seen in its category (for VMs, those
\* given a sequential pseudonym, their row having no VM ID), and the n-th
\* newly seen original of a non-VM category has the pseudonym
\* "<CATEGORY>-" and n padded to four digits.
CountersSequential ==
    /\ anon_manager.vm_counter
          = 1 + Cardinality({ j \in Allocated("VM", Len(cells)) : cells[j].vm_id = "" })
    /\ anon_manager.host_counter = 1 + Cardinality(Allocated("Host", Len(cells)))
    /\ anon_manager.cluster_counter = 1 + Cardinality(Allocated("Cluster", Len(cells)))
    /\ anon_manager.datacenter_counter
          = 1 + Cardinality(Allocated("Datacenter", Len(cells)))
    /\ \A i \in 1..Len(cells) :
          (NewlySeen(i) /\ RuleOf(cells[i]) # "VM") =>
              anon_manager.name_mappings[NameKey(cells[i])]
                  = PrefixOf(cells[i]) \o "-"
                      \o Format04d(Cardinality(
                            Allocated(CategoryOf(RuleOf(cells[i])), i)))

(***************************************************************************)
(* The sheet loop on its own: workbooks holding any of five sheets in any  *)
(* order, one data cell to a sheet                                         *)
(***************************************************************************)
SheetNames == {"vInfo", "vHost", "vCluster", "vNetwork", "vHealth"}

\* wb.sheetnames: every order of every non-empty choice of the sheets
Orderings ==
    UNION { { names \in [1..n -> SheetNames] :
                \A i, j \in 1..n : i # j => names[i] # names[j] } :
            n \in 1..Cardinality(SheetNames) }

\* The data cell a sheet of these workbooks may hold
OrderInputs(sheet_name) ==
    SheetInputs(sheet_name)
        \cap { Cell("Host", "esx01", ""), Cell("Name", "prod", ""),
               Cell("VM", "web01", "vm-1042"), Cell("Network", "prod-net", ""),
               Cell("Name", "esx01", "") }

InitSheets ==
    /\ anon_manager = NewManager("")
    /\ sheetnames \in Orderings
    /\ sheet_pos = 0
    /\ processed_sheets = <<>>
    /\ cells = <<>>
    /\ pc = "anonymize"
    /\ mapping_file = get_mappings(NewManager(""))
    /\ deanon = NoResult

NextSheets ==
    \/ NextSheet
    \/ \E inp \in OrderInputs(CurrentSheet) : ProcessCell(inp)
    \/ Save

SpecSheets == InitSheets /\ [][NextSheets]_vars

RECURSIVE Present(_, _)
\* The names of seq that the workbook holds, in the order of seq
Present(seq, names) ==
    IF Len(seq) = 0 THEN <<>>
    ELSE IF \E i \in 1..Len(names) : names[i] = Head(seq)
    THEN <<Head(seq)>> \o Present(Tail(seq), names)
    ELSE Present(Tail(seq), names)

RECURSIVE Others(_)
\* The names of the workbook other than the host, cluster and inventory
\* sheets, in the order of the file
Others(names) ==
    IF Len(names) = 0 THEN <<>>
    ELSE IF Head(names) \in {"vHost", "vCluster", "vInfo"} THEN Others(Tail(names))
    ELSE <<Head(names)>> \o Others(Tail(names))

\* The order C12 states: host sheet, cluster sheet, inventory sheet, as far
\* as the workbook holds them, then the other sheets as the file orders them
ExpectedOrder(names) ==
    Present(<<"vHost", "vCluster", "vInfo">>, names) \o Others(names)

\* Position of a sheet in a sequence of names (0: not in it)
PositionIn(seq, name) ==
    IF \E i \in 1..Len(seq) : seq[i] = name
    THEN CHOOSE i \in 1..Len(seq) : seq[i] = name
    ELSE 0

\* C12: sheet processing order.  Whatever the order of the sheets in the
\* workbook, the pass processes vHost and vCluster before vInfo and then the
\* remaining sheets in their original order: what it has processed is always
\* the beginning of that order, the cells it passed follow that order, and
\* at the end every sheet of the workbook was processed exactly once.
SheetOrder ==
    /\ Len(processed_sheets) <= Len(ExpectedOrder(sheetnames))
    /\ processed_sheets
          = SubSeq(ExpectedOrder(sheetnames), 1, Len(processed_sheets))
    /\ \A i, j \in 1..Len(cells) :
          i < j => /\ PositionIn(processed_sheets, cells[i].sheet) > 0
                   /\ PositionIn(processed_sheets, cells[i].sheet)
                         <= PositionIn(processed_sheets, cells[j].sheet)
    /\ pc = "saved" =>
          /\ processed_sheets = ExpectedOrder(sheetnames)
          /\ \A s \in Range(sheetnames) :
                Cardinality({ i \in 1..Len(processed_sheets) :
                                processed_sheets[i] = s }) = 1

\* A workbook that lists the inventory sheet before the host sheet, holds no
\* cluster sheet and lists vNetwork before vHealth, processed to the end
SheetOrderWitness ==
    /\ pc = "saved"
    /\ sheetnames = <<"vNetwork", "vInfo", "vHealth", "vHost">>
    /\ processed_sheets = <<"vHost", "vInfo", "vNetwork", "vHealth">>
    /\ Len(cells) = 3
    /\ cells[1].sheet = "vHost" /\ cells[2].sheet = "vInfo"
    /\ cells[3].sheet = "vHealth"

\* The network id the digest of the original network gives: the first four
\* hex digits of the digest of the first three octets, modulo 254, plus 1
DigestNetworkId(ip_str) == network_id(AndFFFFFF00(IPv4ToInt(ip_str)))

\* What C13 says of the octets v of the anonymized form of an address with
\* octets o
ShapeOf(v, o, id) ==
    /\ v[1] = "10"
    /\ v[2] = IntToStr(id)
    /\ id \in 1..254
    /\ v[3] \notin {o[1], o[2], o[3], o[4]}
    /\ v[4] = o[4]

\* C13: synthetic IPv4 shape.  The anonymized form of a valid IPv4 address
\* lies in 10.0.0.0/8, its second octet is the network id of the digest of
\* the original network and is in 1..254, its third octet is not an octet of
\* the original address, and its last octet is the original last octet.
SyntheticShape ==
    \A i \in IPv4Cells :
        /\ IsIPv4Address(cells[i].value)
        /\ ShapeOf(Octets(cells[i].value), Octets(cells[i].original),
                   DigestNetworkId(cells[i].original))

\* The distinct originals the cells of a sheet held under a branch
OriginalsOf(rule, sheet_name) ==
    { cells[i].original :
        i \in { k \in 1..Len(cells) :
                  RuleOf(cells[k]) = rule /\ cells[k].sheet = sheet_name } }

\* C14: summary counting.  At the end of a run the seen-entity set of VMs
\* holds exactly the distinct VM names of the vInfo sheet and that of hosts
\* exactly the distinct host names of the vHost sheet: nothing from another
\* sheet, nothing left out, nothing twice.
SummaryCounting ==
    pc = "saved" =>
        /\ anon_manager.unique_vms = OriginalsOf("VM", "vInfo")
        /\ anon_manager.unique_hosts = OriginalsOf("Host", "vHost")

\* C15: deanonymization does not alter what anonymization left alone.
\* After a run and its deanonymization with the mapping file of that run, a
\* cell whose value the forward pass did not change holds its original
\* value, and so does the row's VM ID cell, which no branch changes.
UnchangedKept ==
    (pc = "deanonymized" /\ deanon.document = "valid") =>
        \A i \in 1..Len(cells) :
            /\ cells[i].value = cells[i].original
                  => deanon.cells[i].value = cells[i].original
            /\ deanon.cells[i].vm_id = cells[i].vm_id
=============================================================================
